---- MODULE Spec2Model ----
(***************************************************************************)
(* A model of shasplit.py: the repository (name directories, instance      *)
(* directories with part symlinks and the hash/size files, the .data blob  *)
(* store) and the operations add_nomaxbackups, remove_obsolete, add,       *)
(* add_lvm, recover and recover_latest, one filesystem call per step, with *)
(* the process allowed to die between any two steps.                       *)
(*                                                                         *)
(* Characters are integers: the digits 0..9 are themselves, the other      *)
(* characters that occur in paths and file contents get codes that keep    *)
(* their ASCII order.  A string is a sequence of characters.               *)
(***************************************************************************)
EXTENDS Integers, Sequences, FiniteSets, TLC

\* ------------------------------------------------------------ bounds
MaxTime == 3
MaxLen == 2
MaxOps == 3
MaxKills == 1

Names == {"a", "b"}
Bytes == {0, 1}
\* the configurations <<partsize, maxparts>> of the Shasplit object
Configs == {<<1, 1>>, <<1, 2>>, <<2, 1>>}
MaxBackupsChoices == {1, 2}

\* ------------------------------------------------------------ characters
NL == -2
DASH == -1
COLON == 10
TEE == 11
dirlen == 3

\* the values of maxparts and the part numbers the part paths are looked at
\* for: those around the lengths at which str(partnr) gets one digit more
PartsMaxChoices == {1, 2, 10, 11, 1000, 1001, 10000, 10001, 100001}
PartIdx == {0, 1, 9, 10, 999, 1000, 9999, 10000, 100000}

Streams == UNION {[1..n -> Bytes] : n \in 0..MaxLen}

Min(a, b) == IF a < b THEN a ELSE b
Max(a, b) == IF a < b THEN b ELSE a

\* s[i:j] of Python, 0-based, half-open, clipped to the string
Slice(s, i, j) ==
  LET lo == Min(i, Len(s))
      hi == Min(j, Len(s))
  IN  IF hi <= lo THEN <<>> ELSE SubSeq(s, lo + 1, hi)

\* s[:n] and s[n:]
Take(s, n) == Slice(s, 0, n)
Drop(s, n) == Slice(s, n, Len(s))

\* Python's < on strings
LexLess(a, b) ==
  \E i \in 1..(Min(Len(a), Len(b)) + 1) :
     /\ \A j \in 1..(i - 1) : a[j] = b[j]
     /\ \/ i > Len(a) /\ i <= Len(b)
        \/ i <= Len(a) /\ i <= Len(b) /\ a[i] < b[i]

\* sorted(S) of a set of strings
RECURSIVE sorted(_)
sorted(S) ==
  IF S = {} THEN <<>>
  ELSE LET m == CHOOSE x \in S : \A y \in S \ {x} : LexLess(x, y)
       IN  <<m>> \o sorted(S \ {m})

Reverse(s) == [i \in 1..Len(s) |-> s[Len(s) + 1 - i]]

Range(s) == {s[i] : i \in 1..Len(s)}

\* str(n) of a non-negative integer
RECURSIVE str(_)
str(n) == IF n < 10 THEN <<n>> ELSE str(n \div 10) \o <<n % 10>>

\* s.rjust(w, '0')
RECURSIVE rjust0(_, _)
rjust0(s, w) == IF Len(s) >= w THEN s ELSE rjust0(<<0>> \o s, w)

\* '%d\n' % n and '%s\n' % h
FormatLine(s) == s \o <<NL>>

\* s.rstrip('\n')
RECURSIVE rstripNL(_)
rstripNL(s) ==
  IF s # <<>> /\ s[Len(s)] = NL THEN rstripNL(SubSeq(s, 1, Len(s) - 1)) ELSE s

IsDigits(s) == s # <<>> /\ \A i \in 1..Len(s) : s[i] \in 0..9

RECURSIVE DigitsValue(_)
DigitsValue(s) ==
  IF s = <<>> THEN 0 ELSE 10 * DigitsValue(SubSeq(s, 1, Len(s) - 1)) + s[Len(s)]

\* int(text): the surrounding whitespace is dropped, the rest must be digits;
\* the result is <<TRUE, value>> or <<FALSE, 0>> for a ValueError
ParseInt(text) ==
  LET body == rstripNL(text)
  IN  IF IsDigits(body) THEN <<TRUE, DigitsValue(body)>>
      ELSE IF body # <<>> /\ body[1] = DASH /\ IsDigits(Drop(body, 1))
           THEN <<TRUE, 0 - DigitsValue(Drop(body, 1))>>
           ELSE <<FALSE, 0>>

\* hashlib.new(algorithm, data).hexdigest(): a collision-free digest, a string
\* of MaxLen + 2 characters that determines the data
HexDigest(data) ==
  <<0>> \o data \o [i \in 1..(MaxLen - Len(data)) |-> 0] \o <<Len(data)>>

\* ------------------------------------------------------------ path model
\* hash_filename: .data/<hexdigest[:3]>/<hexdigest[3:]>, as the pair of the
\* two components under .data
hash_filename(hexdigest) == <<Take(hexdigest, 3), Drop(hexdigest, 3)>>

\* hash_of_filename: filename.rsplit(sep, 2) gives datadir, hash1, hash2
hash_of_filename(filename) == filename[1] \o filename[2]

\* the target of a part symlink, ../../../<hash_filename>: the pair under .data
\* it resolves to
SymlinkTarget(hexdigest) == hash_filename(hexdigest)

\* datetime.now().strftime('%Y-%m-%dT%H:%M:%S') at second t of the clock
Strftime(t) ==
  <<2, 0, 1, 2, DASH, 0, 1, DASH, 0, 1, TEE, 0, 0, COLON, 0, 0, COLON,
    t \div 10, t % 10>>

\* timestamp.replace(':', '')
StripColons(timestamp) == SelectSeq(timestamp, LAMBDA c : c # COLON)

\* instancedir: the pair <<name, directory name>> under the repository
instancedir(name, timestamp) == <<name, StripColons(timestamp)>>

\* timestampdir[:13] + ':' + timestampdir[13:15] + ':' + timestampdir[15:]
TimestampOfDir(timestampdir) ==
  Take(timestampdir, 13) \o <<COLON>> \o Slice(timestampdir, 13, 15)
    \o <<COLON>> \o Drop(timestampdir, 15)

\* the part path with line 222 as partlen = dirlen + 1, whatever maxparts is
PartPath_fixedlen(partnr, mp) ==
  LET part == rjust0(str(partnr), dirlen + 1)
  IN  <<Take(part, dirlen), Drop(part, dirlen)>>

\* the part path of part number partnr: <<part[:dirlen], part[dirlen:]>>
PartPath(partnr, mp) ==
  LET partlen == Max(dirlen + 1, Len(str(mp - 1)))
      part == rjust0(str(partnr), partlen)
  IN  <<Take(part, dirlen), Drop(part, dirlen)>>

\* ------------------------------------------------------------ the repository
\* A repository state is given by
\*   ND  the set of names whose directory R/<name> exists,
\*   I   the instance directories: a function on the existing pairs
\*       <<name, directory name>>, each with the set pdirs of its part
\*       directories, its part symlinks links (a function from the existing
\*       <<partdir, partfile>> to the symlink's target) and its regular files
\*       files (a function from the existing ones of "hash", "size" to their
\*       contents),
\*   DD  the set of existing directories .data/<hash1>,
\*   B   the blobs: a function from the existing <<hash1, hash2>> to contents.
\* The readers below are functions of such a state.

NewInstance == [pdirs |-> {}, links |-> << >>, files |-> << >>]

\* f with x mapped to v (x is added to the domain when it is new)
Put(f, x, v) == [y \in DOMAIN f \cup {x} |-> IF y = x THEN v ELSE f[y]]

\* f without x
Del(f, x) == IF DOMAIN f \ {x} = {} THEN << >> ELSE [y \in DOMAIN f \ {x} |-> f[y]]

\* timestamps(name) with line 115 as timestamps.sort(): oldest first
timestamps_ascending(I, ND, name) ==
  IF name \notin ND THEN <<>>
  ELSE sorted({TimestampOfDir(k[2]) : k \in {x \in DOMAIN I : x[1] = name}})

\* timestamps(name): newest first
timestamps(I, ND, name) ==
  IF name \notin ND THEN <<>>
  ELSE Reverse(sorted({TimestampOfDir(k[2]) : k \in {x \in DOMAIN I : x[1] = name}}))

RECURSIVE PartfilesFrom(_, _, _)
PartfilesFrom(inst_, dirs, i) ==
  IF i > Len(dirs) THEN <<>>
  ELSE LET fs == sorted({l[2] : l \in {x \in DOMAIN inst_.links : x[1] = dirs[i]}})
       IN  [j \in 1..Len(fs) |-> <<dirs[i], fs[j]>>] \o PartfilesFrom(inst_, dirs, i + 1)

\* partfiles without its sorted(): the directory entries in the reverse order
partfiles_unsorted(I, name, timestamp) ==
  LET inst_ == I[instancedir(name, timestamp)]
  IN  Reverse(PartfilesFrom(inst_, sorted(inst_.pdirs), 1))

\* partfiles(name, timestamp): the part symlinks in (partdir, partfile) order.
\* Of the entries of the instance directory only the directories are walked,
\* which leaves out the files hash and size.
partfiles(I, name, timestamp) ==
  LET inst_ == I[instancedir(name, timestamp)]
  IN  PartfilesFrom(inst_, sorted(inst_.pdirs), 1)

\* requiredfiles(name, timestamp)
requiredfiles == <<"size", "hash">>

\* sizes(name, timestamp).  err is "" on return and the exception otherwise;
\* known = FALSE stands for expected_size = None.
sizes(I, B, name, timestamp) ==
  LET inst_ == I[instancedir(name, timestamp)]
      pfs == partfiles(I, name, timestamp)
      RECURSIVE Sum(_)
      Sum(i) == IF i > Len(pfs) THEN 0 ELSE Len(B[inst_.links[pfs[i]]]) + Sum(i + 1)
      dangling == \E i \in 1..Len(pfs) : inst_.links[pfs[i]] \notin DOMAIN B
      missing == \E i \in 1..Len(requiredfiles) : requiredfiles[i] \notin DOMAIN inst_.files
      parsed == ParseInt(inst_.files["size"])
  IN  IF dangling THEN [err |-> "OSError", size |-> 0, known |-> FALSE, expected |-> 0]
      ELSE IF missing THEN [err |-> "", size |-> Sum(1), known |-> FALSE, expected |-> 0]
      ELSE IF ~parsed[1]
        THEN [err |-> "ValueError", size |-> Sum(1), known |-> FALSE, expected |-> 0]
      ELSE IF parsed[2] < 0
        THEN [err |-> "ValueError", size |-> Sum(1), known |-> TRUE, expected |-> parsed[2]]
      ELSE IF Sum(1) > parsed[2]
        THEN [err |-> "RuntimeError", size |-> Sum(1), known |-> TRUE, expected |-> parsed[2]]
      ELSE [err |-> "", size |-> Sum(1), known |-> TRUE, expected |-> parsed[2]]

\* size == expected_size taken as expected_size is not None
SizesEqual_known(r) == r.known

\* size == expected_size of the callers of sizes
SizesEqual(r) == r.known /\ r.size = r.expected

\* recover_nosizecheck without lines 292-295: the hash file is not compared
recover_nosizecheck_nohash(I, B, name, timestamp) ==
  LET inst_ == I[instancedir(name, timestamp)]
      pfs == partfiles(I, name, timestamp)
      bad == {i \in 1..Len(pfs) : inst_.links[pfs[i]] \notin DOMAIN B}
      stop == IF bad = {} THEN Len(pfs) + 1 ELSE CHOOSE i \in bad : \A j \in bad : i <= j
      RECURSIVE Cat(_)
      Cat(i) == IF i >= stop THEN <<>> ELSE B[inst_.links[pfs[i]]] \o Cat(i + 1)
  IN  [err |-> IF bad # {} THEN "IOError" ELSE "", out |-> Cat(1)]

\* recover_nosizecheck(name, timestamp, output_io): the bytes written to
\* output_io and "" or the exception
recover_nosizecheck(I, B, name, timestamp) ==
  LET inst_ == I[instancedir(name, timestamp)]
      pfs == partfiles(I, name, timestamp)
      bad == {i \in 1..Len(pfs) : inst_.links[pfs[i]] \notin DOMAIN B}
      stop == IF bad = {} THEN Len(pfs) + 1 ELSE CHOOSE i \in bad : \A j \in bad : i <= j
      RECURSIVE Cat(_)
      Cat(i) == IF i >= stop THEN <<>> ELSE B[inst_.links[pfs[i]]] \o Cat(i + 1)
      written == Cat(1)
  IN  IF bad # {} THEN [err |-> "IOError", out |-> written]
      ELSE IF "hash" \notin DOMAIN inst_.files THEN [err |-> "IOError", out |-> written]
      ELSE IF HexDigest(written) # rstripNL(inst_.files["hash"])
        THEN [err |-> "RuntimeError", out |-> written]
      ELSE [err |-> "", out |-> written]

\* recover(name, timestamp, output_io)
recover(I, B, name, timestamp) ==
  IF instancedir(name, timestamp) \notin DOMAIN I THEN [err |-> "OSError", out |-> <<>>]
  ELSE LET r == sizes(I, B, name, timestamp)
       IN  IF r.err # "" THEN [err |-> r.err, out |-> <<>>]
           ELSE IF ~SizesEqual(r) THEN [err |-> "RuntimeError", out |-> <<>>]
           ELSE recover_nosizecheck(I, B, name, timestamp)

\* recover_latest(name, output_io)
recover_latest(I, B, ND, name) ==
  LET tss == timestamps(I, ND, name)
      RECURSIVE Walk(_)
      Walk(i) ==
        IF i > Len(tss) THEN [err |-> "RuntimeError", out |-> <<>>]
        ELSE LET r == sizes(I, B, name, tss[i])
             IN  IF r.err # "" THEN [err |-> r.err, out |-> <<>>]
                 ELSE IF SizesEqual(r) THEN recover_nosizecheck(I, B, name, tss[i])
                 ELSE Walk(i + 1)
  IN  Walk(1)

\* ------------------------------------------------------------ state
VARIABLES
  namedirs,   \* the existing directories R/<name>
  inst,       \* the existing instance directories and what they hold
  datadirs,   \* the existing directories R/.data/<hash1>
  blobs,      \* the existing files R/.data/<hash1>/<hash2>
  clock,      \* the second datetime.now() falls in
  partsize,   \* self.partsize
  maxparts,   \* self.maxparts
  pc,         \* where the process is: "idle" when no call is running
  op,         \* the running call: kind, name, maxbackups, timestamp
  phase,      \* within add and add_lvm: 1, 2, 3 for the three calls they make
  status,     \* the exception that ended the call, "" when none
  add_l,      \* the locals of add_nomaxbackups
  wf,         \* the arguments of the running write_file
  ro_l,       \* the locals of remove_obsolete
  out,        \* what the last recover call wrote and how it ended
  pre,        \* the repository when the running remove_obsolete was entered
  pending,    \* the instances left behind by an ingest that failed or was killed
              \* and that no remove_obsolete of their name has finished after,
              \* each with how its ingest ended: "failed" or "killed"
  nops,       \* the number of calls so far that change the repository
  nkills,     \* the number of times the process was killed
  src,        \* the stream each instance was ingested from, for the instances
              \* whose add_nomaxbackups returned
  run         \* as long as (pure) all that happened to the repository is calls
              \* add_lvm(_, name, k) of one name and one k that returned: the
              \* name, the k and the timestamps of their instances, oldest first

fsvars == <<namedirs, inst, datadirs, blobs>>
\* what only Exit and the kills change
cfgvars == <<partsize, maxparts>>
slowvars == <<cfgvars, nkills, run, src>>
vars == <<namedirs, inst, datadirs, blobs, clock, partsize, maxparts, pc, op, phase,
          status, add_l, wf, ro_l, out, pre, pending, nops, nkills, src, run>>

NoOp == [kind |-> "none", name |-> "", maxbackups |-> 0, timestamp |-> <<>>]
\* input_io is given by what it has handed out so far (read) and by whether
\* its end was reached (eof)
NoAdd == [timestamp |-> <<>>, read |-> <<>>, eof |-> FALSE, partnr |-> 0,
          size_total |-> 0, hash_total |-> <<>>, data |-> <<>>]
NoWf == [file |-> "", data |-> <<>>]
NoRo == [instances |-> <<>>, cur |-> <<>>, todo |-> <<>>, partdirs |-> {},
         reqs |-> <<>>, hexdigests |-> {}, rel_data_dirnames |-> {}]
NoOut == [err |-> "", out |-> <<>>]
NoPre == [namedirs |-> {}, inst |-> << >>, blobs |-> << >>]

Init ==
  /\ namedirs = {}
  /\ inst = << >>
  /\ datadirs = {}
  /\ blobs = << >>
  /\ clock = 1
  /\ \E c \in Configs : partsize = c[1] /\ maxparts = c[2]
  /\ pc = "idle"
  /\ op = NoOp
  /\ phase = 0
  /\ status = ""
  /\ add_l = NoAdd
  /\ wf = NoWf
  /\ ro_l = NoRo
  /\ out = NoOut
  /\ pre = NoPre
  /\ pending = {}
  /\ nops = 0
  /\ nkills = 0
  /\ src = << >>
  /\ run = [pure |-> TRUE, name |-> "", k |-> 0, tss |-> <<>>]

\* the paths the running add_nomaxbackups works on
CurInstance == instancedir(op.name, add_l.timestamp)
CurPart == PartPath(add_l.partnr, maxparts)

\* line 228 with the digest of the whole input so far for that of the part
CurBlob_total == hash_filename(HexDigest(add_l.hash_total))

CurBlob == hash_filename(HexDigest(add_l.data))

\* where a call of add_nomaxbackups or remove_obsolete returns to
AddExit == IF op.kind = "add_nomaxbackups" THEN "returned" ELSE "add_done"
RoExit == IF op.kind = "remove_obsolete" \/ phase = 3 THEN "returned" ELSE "ro_done"

\* an exception leaves the call; an ingest that fails leaves its instance behind
Raise(exc) ==
  /\ pc' = "raised"
  /\ status' = exc

LeftBehind(I, how) ==
  IF CurInstance \in DOMAIN I THEN pending \cup {<<CurInstance, how>>} ELSE pending

\* ------------------------------------------------------------ add_nomaxbackups
\* the entry of add_nomaxbackups without lines 205-206
EnterAdd_nocheck(name) ==
  /\ add_l' = [NoAdd EXCEPT !.timestamp = Strftime(clock)]
  /\ pc' = "add_read"
  /\ status' = ""

\* lines 201-212: the entry of add_nomaxbackups(name, input_io)
EnterAdd(name) ==
  LET timestamp == Strftime(clock)
  IN  /\ add_l' = [NoAdd EXCEPT !.timestamp = timestamp]
      /\ IF instancedir(name, timestamp) \in DOMAIN inst
           THEN Raise("AlreadyExists")
           ELSE pc' = "add_read" /\ status' = ""

\* the entry of write_file(filename, data): line 34-35 decide on makedirs
EnterWriteFile(file, data, I, DD) ==
  /\ wf' = [file |-> file, data |-> data]
  /\ pc' = IF file = "blob"
             THEN IF CurBlob[1] \in DD THEN "wf_open" ELSE "wf_makedirs"
             ELSE IF CurInstance \in DOMAIN I THEN "wf_open" ELSE "wf_makedirs"

\* input_io.read(partsize): partsize bytes, or fewer when the input ends with
\* them; the input is a stream of at most MaxLen bytes
Reads ==
  IF add_l.eof THEN {<<>>}
  ELSE UNION {[1..n -> Bytes] : n \in 0..Min(partsize, MaxLen - Len(add_l.read))}

\* lines 214-226: read one part
add_read ==
  /\ pc = "add_read"
  /\ \E data \in Reads :
         IF Len(data) = 0
           THEN /\ add_l' = [add_l EXCEPT !.eof = TRUE]
                /\ EnterWriteFile("hash", FormatLine(HexDigest(add_l.hash_total)), inst, datadirs)
                /\ UNCHANGED <<status, pending>>
           ELSE /\ add_l' = [add_l EXCEPT !.read = @ \o data,
                                          !.eof = Len(data) < partsize,
                                          !.data = data,
                                          !.hash_total = add_l.hash_total \o data,
                                          !.size_total = add_l.size_total + Len(data)]
                /\ wf' = wf
                /\ IF add_l.partnr >= maxparts
                     THEN Raise("TooManyParts") /\ pending' = LeftBehind(inst, "failed")
                     ELSE /\ pc' = IF CurInstance \in DOMAIN inst
                                      /\ CurPart[1] \in inst[CurInstance].pdirs
                                   THEN "sl_symlink" ELSE "sl_makedirs"
                          /\ UNCHANGED <<status, pending>>
  /\ UNCHANGED <<fsvars, clock, slowvars, op, phase, ro_l, out, pre, nops>>

\* os.makedirs of an instance directory or of a part directory in it, one
\* mkdir per step: the topmost missing directory is made
MkdirToward(needPartdir) ==
  IF op.name \notin namedirs
    THEN namedirs' = namedirs \cup {op.name} /\ inst' = inst
  ELSE IF CurInstance \notin DOMAIN inst
    THEN inst' = Put(inst, CurInstance, NewInstance) /\ namedirs' = namedirs
  ELSE /\ needPartdir
       /\ inst' = [inst EXCEPT ![CurInstance].pdirs = @ \cup {CurPart[1]}]
       /\ namedirs' = namedirs

\* Util.symlink, lines 43-46
symlink_makedirs ==
  /\ pc = "sl_makedirs"
  /\ MkdirToward(TRUE)
  /\ pc' = IF CurInstance \in DOMAIN inst' /\ CurPart[1] \in inst'[CurInstance].pdirs
             THEN "sl_symlink" ELSE "sl_makedirs"
  /\ UNCHANGED <<datadirs, blobs, clock, slowvars, op, phase, status, add_l, wf, ro_l,
                 out, pre, pending, nops>>

\* line 229 with the test always failing: every part is written
SkipExisting_never == FALSE

\* line 229: os.path.exists(data_filename) and
\* os.path.getsize(data_filename) == len(data)
SkipExisting == CurBlob \in DOMAIN blobs /\ Len(blobs[CurBlob]) = Len(add_l.data)

\* Util.symlink, line 48, and lines 228-232 of add_nomaxbackups
symlink_create ==
  /\ pc = "sl_symlink"
  /\ IF CurPart \in DOMAIN inst[CurInstance].links
       THEN /\ Raise("OSError")
            /\ pending' = LeftBehind(inst, "failed")
            /\ UNCHANGED <<inst, add_l, wf>>
       ELSE /\ inst' = [inst EXCEPT ![CurInstance].links = Put(@, CurPart, SymlinkTarget(HexDigest(add_l.data)))]
            /\ IF SkipExisting
                 THEN /\ add_l' = [add_l EXCEPT !.partnr = @ + 1]
                      /\ pc' = "add_read"
                      /\ wf' = wf
                 ELSE /\ add_l' = add_l
                      /\ EnterWriteFile("blob", add_l.data, inst, datadirs)
            /\ UNCHANGED <<status, pending>>
  /\ UNCHANGED <<namedirs, datadirs, blobs, clock, slowvars, op, phase, ro_l, out, pre, nops>>

\* Util.write_file, lines 34-37
write_file_makedirs ==
  /\ pc = "wf_makedirs"
  /\ IF wf.file = "blob"
       THEN /\ datadirs' = datadirs \cup {CurBlob[1]}
            /\ pc' = "wf_open"
            /\ UNCHANGED <<namedirs, inst>>
       ELSE /\ MkdirToward(FALSE)
            /\ pc' = IF CurInstance \in DOMAIN inst' THEN "wf_open" ELSE "wf_makedirs"
            /\ datadirs' = datadirs
  /\ UNCHANGED <<blobs, clock, slowvars, op, phase, status, add_l, wf, ro_l, out, pre,
                 pending, nops>>

\* the file write_file works on gets the contents c
SetFile(c) ==
  IF wf.file = "blob"
    THEN blobs' = Put(blobs, CurBlob, c) /\ inst' = inst
    ELSE inst' = [inst EXCEPT ![CurInstance].files = Put(@, wf.file, c)] /\ blobs' = blobs

\* Util.write_file, line 39: open(filename, 'wb') creates the file or empties it
write_file_open ==
  /\ pc = "wf_open"
  /\ SetFile(<<>>)
  /\ pc' = "wf_write"
  /\ UNCHANGED <<namedirs, datadirs, clock, slowvars, op, phase, status, add_l, wf, ro_l,
                 out, pre, pending, nops>>

\* Util.write_file, line 40, and what add_nomaxbackups does next
write_file_write ==
  /\ pc = "wf_write"
  /\ SetFile(wf.data)
  /\ IF wf.file = "blob"
       THEN /\ add_l' = [add_l EXCEPT !.partnr = @ + 1]
            /\ pc' = "add_read"
            /\ wf' = wf
       ELSE IF wf.file = "hash"
         THEN /\ add_l' = add_l
              /\ EnterWriteFile("size", FormatLine(str(add_l.size_total)), inst', datadirs)
         ELSE /\ add_l' = add_l
              /\ wf' = wf
              /\ pc' = AddExit
  /\ src' = IF wf.file = "size" THEN Put(src, CurInstance, add_l.read) ELSE src
  /\ UNCHANGED <<namedirs, datadirs, clock, cfgvars, nkills, run, op, phase, status, ro_l,
                 out, pre, pending, nops>>

\* ------------------------------------------------------------ remove_obsolete
\* lines 151-159: the instances to remove, or the exception sizes raised
RECURSIVE SelectFrom(_, _, _, _, _, _, _)
SelectFrom(I, B, name, maxbackups, tss, i, num_completed) ==
  IF i > Len(tss) THEN [err |-> "", instances |-> <<>>]
  ELSE IF num_completed < maxbackups
    THEN LET r == sizes(I, B, name, tss[i])
         IN  IF r.err # "" THEN [err |-> r.err, instances |-> <<>>]
             ELSE SelectFrom(I, B, name, maxbackups, tss, i + 1,
                             IF SizesEqual(r) THEN num_completed + 1 ELSE num_completed)
    ELSE LET more == SelectFrom(I, B, name, maxbackups, tss, i + 1, num_completed)
         IN  [more EXCEPT !.instances = <<tss[i]>> \o @]

\* lines 151-159 with an exception of sizes taken as "not completed"
Obsolete_lenient(I, B, ND, name, maxbackups) ==
  [SelectFrom(I, B, name, maxbackups, timestamps(I, ND, name), 1, 0) EXCEPT !.err = ""]

\* line 154 with <= for <
Obsolete_offbyone(I, B, ND, name, maxbackups) ==
  SelectFrom(I, B, name, maxbackups + 1, timestamps(I, ND, name), 1, 0)

Obsolete(I, B, ND, name, maxbackups) ==
  SelectFrom(I, B, name, maxbackups, timestamps(I, ND, name), 1, 0)

\* names(): the entries of the repository directory other than .data
names(ND) == ND

\* remove_obsolete without lines 177-181
UsedDigests_none(I, ND) == {}

\* lines 177-181: the digests the part symlinks of all instances refer to
UsedDigests(I, ND) ==
  UNION {UNION {{hash_of_filename(I[instancedir(n, ts)].links[l]) :
                    l \in Range(partfiles(I, n, ts))} :
                ts \in Range(timestamps(I, ND, n))} :
         n \in names(ND)}

\* lines 147-159: the entry of remove_obsolete(name, maxbackups)
EnterRemove(name, maxbackups) ==
  LET sel == Obsolete(inst, blobs, namedirs, name, maxbackups)
  IN  /\ pre' = [namedirs |-> namedirs, inst |-> inst, blobs |-> blobs]
      /\ IF sel.err # ""
           THEN Raise(sel.err) /\ ro_l' = NoRo
           ELSE /\ ro_l' = [NoRo EXCEPT !.instances = sel.instances]
                /\ pc' = "ro_instance"
                /\ status' = ""

\* line 162-165: the next instance to remove; lines 176-181 after the last one
ro_instance ==
  /\ pc = "ro_instance"
  /\ IF ro_l.instances = <<>>
       THEN LET unused == ro_l.hexdigests \ UsedDigests(inst, namedirs)
            IN  /\ ro_l' = [ro_l EXCEPT !.hexdigests = unused, !.cur = <<>>]
                /\ pc' = IF unused = {} THEN RoExit ELSE "ro_datafile"
       ELSE LET ts == Head(ro_l.instances)
                todo == partfiles(inst, op.name, ts)
            IN  /\ ro_l' = [ro_l EXCEPT !.cur = ts, !.todo = todo, !.partdirs = {},
                                        !.reqs = requiredfiles]
                /\ pc' = IF todo = <<>> THEN "ro_required" ELSE "ro_partfile"
  /\ UNCHANGED <<fsvars, clock, slowvars, op, phase, status, add_l, wf, out, pre,
                 pending, nops>>

RoInstance == instancedir(op.name, ro_l.cur)

\* lines 166-169: one part symlink is read and removed
ro_partfile ==
  /\ pc = "ro_partfile"
  /\ LET partfile == Head(ro_l.todo)
         hexdigest == hash_of_filename(inst[RoInstance].links[partfile])
     IN  /\ inst' = [inst EXCEPT ![RoInstance].links = Del(@, partfile)]
         /\ ro_l' = [ro_l EXCEPT !.todo = Tail(@),
                                 !.hexdigests = @ \cup {hexdigest},
                                 !.partdirs = @ \cup {partfile[1]}]
         /\ pc' = IF Tail(ro_l.todo) = <<>> THEN "ro_partdir" ELSE "ro_partfile"
  /\ UNCHANGED <<namedirs, datadirs, blobs, clock, slowvars, op, phase, status, add_l, wf,
                 out, pre, pending, nops>>

\* lines 170-171: one part directory is removed; the set is walked in any order
ro_partdir ==
  /\ pc = "ro_partdir"
  /\ \E partdir \in ro_l.partdirs :
       IF \E l \in DOMAIN inst[RoInstance].links : l[1] = partdir
         THEN Raise("OSError") /\ UNCHANGED <<inst, ro_l>>
         ELSE /\ inst' = [inst EXCEPT ![RoInstance].pdirs = @ \ {partdir}]
              /\ ro_l' = [ro_l EXCEPT !.partdirs = @ \ {partdir}]
              /\ pc' = IF ro_l.partdirs = {partdir} THEN "ro_required" ELSE "ro_partdir"
              /\ status' = status
  /\ UNCHANGED <<namedirs, datadirs, blobs, clock, slowvars, op, phase, add_l, wf, out,
                 pre, pending, nops>>

\* lines 172-174: one of the required files is removed if it exists
ro_required ==
  /\ pc = "ro_required"
  /\ LET requiredfile == Head(ro_l.reqs)
     IN  /\ inst' = IF requiredfile \in DOMAIN inst[RoInstance].files
                      THEN [inst EXCEPT ![RoInstance].files = Del(@, requiredfile)]
                      ELSE inst
         /\ ro_l' = [ro_l EXCEPT !.reqs = Tail(@)]
         /\ pc' = IF Tail(ro_l.reqs) = <<>> THEN "ro_rmdir" ELSE "ro_required"
  /\ UNCHANGED <<namedirs, datadirs, blobs, clock, slowvars, op, phase, status, add_l, wf,
                 out, pre, pending, nops>>

\* line 175: os.rmdir of the instance directory, which fails on a directory
\* that is not empty
ro_rmdir ==
  /\ pc = "ro_rmdir"
  /\ IF inst[RoInstance].pdirs # {} \/ DOMAIN inst[RoInstance].files # {}
       THEN Raise("OSError") /\ UNCHANGED <<inst, ro_l>>
       ELSE /\ inst' = Del(inst, RoInstance)
            /\ ro_l' = [ro_l EXCEPT !.instances = Tail(@)]
            /\ pc' = "ro_instance"
            /\ status' = status
  /\ src' = IF RoInstance \in DOMAIN inst' THEN src ELSE Del(src, RoInstance)
  /\ UNCHANGED <<namedirs, datadirs, blobs, clock, cfgvars, nkills, run, op, phase, add_l,
                 wf, out, pre, pending, nops>>

\* lines 184-190: one unused data file is removed if it exists; the set is
\* walked in any order
ro_datafile ==
  /\ pc = "ro_datafile"
  /\ \E hexdigest \in ro_l.hexdigests :
       LET rel_data_filename == hash_filename(hexdigest)
       IN  /\ blobs' = IF rel_data_filename \in DOMAIN blobs
                         THEN Del(blobs, rel_data_filename) ELSE blobs
           /\ ro_l' = [ro_l EXCEPT !.hexdigests = @ \ {hexdigest},
                                   !.rel_data_dirnames = @ \cup {rel_data_filename[1]}]
           /\ pc' = IF ro_l.hexdigests = {hexdigest} THEN "ro_datadir" ELSE "ro_datafile"
  /\ UNCHANGED <<namedirs, inst, datadirs, clock, slowvars, op, phase, status, add_l, wf,
                 out, pre, pending, nops>>

\* lines 192-198: os.rmdir of one data directory, a failure being ignored
ro_datadir ==
  /\ pc = "ro_datadir"
  /\ \E rel_data_dirname \in ro_l.rel_data_dirnames :
       /\ datadirs' = IF /\ rel_data_dirname \in datadirs
                         /\ ~\E b \in DOMAIN blobs : b[1] = rel_data_dirname
                        THEN datadirs \ {rel_data_dirname} ELSE datadirs
       /\ ro_l' = [ro_l EXCEPT !.rel_data_dirnames = @ \ {rel_data_dirname}]
       /\ pc' = IF ro_l.rel_data_dirnames = {rel_data_dirname} THEN RoExit ELSE "ro_datadir"
  /\ UNCHANGED <<namedirs, inst, blobs, clock, slowvars, op, phase, status, add_l, wf,
                 out, pre, pending, nops>>

\* ------------------------------------------------------------ calls
InAdd == op.kind = "add_nomaxbackups" \/ (op.kind = "add_lvm" /\ phase = 2)
InRemove == op.kind = "remove_obsolete" \/ (op.kind \in {"add", "add_lvm"} /\ phase \in {1, 3})

Running == pc \notin {"idle", "returned", "raised"}
AddLabels == {"add_read", "sl_makedirs", "sl_symlink", "wf_makedirs", "wf_open", "wf_write"}

\* a remove_obsolete of name has finished
Settled(name) == {p \in pending : p[1][1] # name}

\* The model follows MaxOps events: calls that change the repository, and kills.
Budget == nops + nkills < MaxOps

Call(kind, name, maxbackups) ==
  /\ pc = "idle"
  /\ Budget
  /\ nops' = nops + 1
  /\ op' = [kind |-> kind, name |-> name, maxbackups |-> maxbackups, timestamp |-> <<>>]

\* add_nomaxbackups(name, input_io) is called
call_add_nomaxbackups(name) ==
  /\ Call("add_nomaxbackups", name, 0)
  /\ EnterAdd(name)
  /\ phase' = 0
  /\ UNCHANGED <<fsvars, clock, slowvars, wf, ro_l, out, pre, pending>>

\* remove_obsolete(name, maxbackups) is called
call_remove_obsolete(name, maxbackups) ==
  /\ Call("remove_obsolete", name, maxbackups)
  /\ EnterRemove(name, maxbackups)
  /\ phase' = 0
  /\ UNCHANGED <<fsvars, clock, slowvars, add_l, wf, out, pending>>

\* add_lvm(volumegroup, name, maxbackups), lines 244-247
call_add_lvm(name, maxbackups) ==
  /\ Call("add_lvm", name, maxbackups)
  /\ EnterRemove(name, maxbackups)
  /\ phase' = 1
  /\ UNCHANGED <<fsvars, clock, slowvars, add_l, wf, out, pending>>

\* add_lvm, lines 248-253: the snapshot is made and ingested
add_lvm_ingest ==
  /\ pc = "ro_done"
  /\ op.kind = "add_lvm"
  /\ phase' = 2
  /\ EnterAdd(op.name)
  /\ pre' = NoPre
  /\ ro_l' = NoRo
  /\ pending' = Settled(op.name)
  /\ UNCHANGED <<fsvars, clock, slowvars, op, wf, out, nops>>

\* add_lvm, lines 254-256: the snapshot is removed and remove_obsolete runs again
add_lvm_retention ==
  /\ pc = "add_done"
  /\ op.kind = "add_lvm"
  /\ phase' = 3
  /\ EnterRemove(op.name, op.maxbackups)
  /\ add_l' = NoAdd
  /\ wf' = NoWf
  /\ UNCHANGED <<fsvars, clock, slowvars, op, out, pending, nops>>

\* add(name, maxbackups, input_io), lines 237-239
call_add(name, maxbackups) ==
  /\ Call("add", name, maxbackups)
  /\ EnterRemove(name, maxbackups)
  /\ phase' = 1
  /\ UNCHANGED <<fsvars, clock, slowvars, add_l, wf, out, pending>>

\* add, line 240: add_nomaxbackups is called with one argument too few, which
\* is a TypeError before its first line runs
add_ingest ==
  /\ pc = "ro_done"
  /\ op.kind = "add"
  /\ phase' = 2
  /\ Raise("TypeError")
  /\ pre' = NoPre
  /\ ro_l' = NoRo
  /\ pending' = Settled(op.name)
  /\ UNCHANGED <<fsvars, clock, slowvars, op, add_l, wf, out, nops>>

\* recover_latest(name, output_io) is called and runs
call_recover_latest(name) ==
  /\ pc = "idle"
  /\ Budget
  /\ op' = [NoOp EXCEPT !.kind = "recover_latest", !.name = name]
  /\ out' = recover_latest(inst, blobs, namedirs, name)
  /\ pc' = IF out'.err = "" THEN "returned" ELSE "raised"
  /\ status' = out'.err
  /\ UNCHANGED <<fsvars, clock, slowvars, phase, add_l, wf, ro_l, pre, pending, nops>>

\* recover(name, timestamp, output_io) is called and runs
call_recover(name, t) ==
  /\ pc = "idle"
  /\ Budget
  /\ op' = [NoOp EXCEPT !.kind = "recover", !.name = name, !.timestamp = Strftime(t)]
  /\ out' = recover(inst, blobs, name, Strftime(t))
  /\ pc' = IF out'.err = "" THEN "returned" ELSE "raised"
  /\ status' = out'.err
  /\ UNCHANGED <<fsvars, clock, slowvars, phase, add_l, wf, ro_l, pre, pending, nops>>

Spoiled == [pure |-> FALSE, name |-> "", k |-> 0, tss |-> <<>>]

Reset ==
  /\ pc' = "idle"
  /\ op' = NoOp
  /\ phase' = 0
  /\ status' = ""
  /\ add_l' = NoAdd
  /\ wf' = NoWf
  /\ ro_l' = NoRo
  /\ out' = NoOut
  /\ pre' = NoPre

\* the call has returned or raised: the process exits
Exit ==
  /\ pc \in {"returned", "raised"}
  /\ Reset
  /\ pending' = IF InRemove THEN Settled(op.name) ELSE pending
  /\ run' = IF op.kind \in {"recover", "recover_latest"} THEN run
            ELSE IF /\ run.pure /\ pc = "returned" /\ op.kind = "add_lvm"
                    /\ run.tss = <<>> \/ (run.name = op.name /\ run.k = op.maxbackups)
              THEN [pure |-> TRUE, name |-> op.name, k |-> op.maxbackups,
                    tss |-> Append(run.tss, Strftime(clock))]
            ELSE Spoiled
  /\ UNCHANGED <<fsvars, clock, cfgvars, nkills, src, nops>>

\* the process is killed between two steps
Kill ==
  /\ Running
  /\ nkills < MaxKills
  /\ nkills' = nkills + 1
  /\ run' = Spoiled
  /\ Reset
  /\ pending' = IF pc \in AddLabels THEN LeftBehind(inst, "killed") ELSE pending
  /\ UNCHANGED <<fsvars, clock, cfgvars, src, nops>>

\* the process is killed while write_file writes: a part of the data is in the file
KillInWrite ==
  /\ pc = "wf_write"
  /\ nkills < MaxKills
  /\ nkills' = nkills + 1
  /\ run' = Spoiled
  /\ \E n \in 1..(Len(wf.data) - 1) : SetFile(Take(wf.data, n))
  /\ Reset
  /\ pending' = LeftBehind(inst, "killed")
  /\ UNCHANGED <<namedirs, datadirs, clock, cfgvars, src, nops>>

\* a second passes.  Only the order of the timestamps and their collisions
\* matter to the program, so the clock is looked at again only once the
\* current second names an instance.
Tick ==
  /\ pc = "idle"
  /\ clock < MaxTime
  /\ \E k \in DOMAIN inst : k[2] = StripColons(Strftime(clock))
  /\ clock' = clock + 1
  /\ UNCHANGED <<fsvars, slowvars, pc, op, phase, status, add_l, wf, ro_l, out, pre,
                 pending, nops>>

Step ==
  \/ add_read
  \/ symlink_makedirs
  \/ symlink_create
  \/ write_file_makedirs
  \/ write_file_open
  \/ write_file_write
  \/ ro_instance
  \/ ro_partfile
  \/ ro_partdir
  \/ ro_required
  \/ ro_rmdir
  \/ ro_datafile
  \/ ro_datadir
  \/ add_lvm_ingest
  \/ add_lvm_retention
  \/ add_ingest
  \/ Exit
  \/ Tick

Calls ==
  \/ \E name \in Names : call_add_nomaxbackups(name)
  \/ \E name \in Names, maxbackups \in MaxBackupsChoices : call_remove_obsolete(name, maxbackups)
  \/ \E name \in Names, maxbackups \in MaxBackupsChoices : call_add_lvm(name, maxbackups)
  \/ \E name \in Names, maxbackups \in MaxBackupsChoices : call_add(name, maxbackups)
  \/ \E name \in Names : call_recover_latest(name)
  \/ \E name \in Names, t \in 1..MaxTime : call_recover(name, t)

Next == Step \/ Calls \/ Kill \/ KillInWrite

Spec == Init /\ [][Next]_vars

\* An ingest of name "a" under way in a repository that holds nothing else,
\* for each of the values of maxparts
InitParts ==
  /\ namedirs = {"a"}
  /\ inst = (instancedir("a", Strftime(1)) :> NewInstance)
  /\ datadirs = {}
  /\ blobs = << >>
  /\ clock = 1
  /\ partsize = 1
  /\ maxparts \in PartsMaxChoices
  /\ pc = "add_read"
  /\ op = [NoOp EXCEPT !.kind = "add_nomaxbackups", !.name = "a"]
  /\ phase = 0
  /\ status = ""
  /\ add_l = [NoAdd EXCEPT !.timestamp = Strftime(1)]
  /\ wf = NoWf
  /\ ro_l = NoRo
  /\ out = NoOut
  /\ pre = NoPre
  /\ pending = {}
  /\ nops = 1
  /\ nkills = 0
  /\ src = << >>
  /\ run = Spoiled

\* lines 219-227 at part number partnr, one of the part numbers of PartIdx the
\* loop has not passed: the part directory and the part symlink are made
part_symlink ==
  /\ pc = "add_read"
  /\ \E partnr \in PartIdx :
       /\ partnr >= add_l.partnr
       /\ partnr < maxparts
       /\ LET path == PartPath(partnr, maxparts)
          IN  inst' = [inst EXCEPT ![CurInstance].pdirs = @ \cup {path[1]},
                                   ![CurInstance].links =
                                      Put(@, path, SymlinkTarget(HexDigest(<<>>)))]
       /\ add_l' = [add_l EXCEPT !.partnr = partnr + 1]
  /\ UNCHANGED <<namedirs, datadirs, blobs, clock, slowvars, pc, op, phase, status, wf,
                 ro_l, out, pre, pending, nops>>

\* the part paths of an ingest, looked at for the part numbers of PartIdx
SpecParts == InitParts /\ [][part_symlink]_vars

\* The bytes of a blob file are changed behind the program's back, the length
\* of the file staying what it was: what lines 286-288 of recover_nosizecheck
\* read is whatever the file holds.
Corrupt ==
  /\ pc = "idle"
  /\ Budget
  /\ nops' = nops + 1
  /\ \E b \in DOMAIN blobs :
       \E c \in [1..Len(blobs[b]) -> Bytes] :
          /\ c # blobs[b]
          /\ blobs' = Put(blobs, b, c)
  /\ run' = Spoiled
  /\ UNCHANGED <<namedirs, inst, datadirs, clock, cfgvars, nkills, src, pc, op, phase,
                 status, add_l, wf, ro_l, out, pre, pending>>

NextCorrupt == Next \/ Corrupt

\* the program on a disk that may alter the contents of blob files
SpecCorrupt == Init /\ [][NextCorrupt]_vars

\* ------------------------------------------------------------ properties
InstancesOf(I, name) == {k \in DOMAIN I : k[1] = name}

\* sizes says the instance is completed
Completed(I, B, name, timestamp) ==
  LET r == sizes(I, B, name, timestamp) IN r.err = "" /\ SizesEqual(r)

\* the targets of the part symlinks of the instances
Referenced(I) == UNION {{I[k].links[l] : l \in DOMAIN I[k].links} : k \in DOMAIN I}

\* every part symlink resolves to an existing blob
AllResolve(I, B) == Referenced(I) \subseteq DOMAIN B

\* remove_obsolete has returned
RemoveReturned == InRemove /\ pc \in {"returned", "ro_done"}

\* remove_obsolete has returned or raised
RemoveFinished == InRemove /\ pc \in {"returned", "ro_done", "raised"}

\* add_nomaxbackups has returned
AddReturned == InAdd /\ pc \in {"returned", "add_done"}

\* C1: when add_nomaxbackups(name, S) has returned, recover_latest(name)
\* writes exactly S and succeeds, the size file of the new instance holds the
\* length of S and its hash file the digest of S, and the instance of an empty
\* S has no part symlink.
C1_RoundTrip ==
  AddReturned =>
    LET S == add_l.read
        new == inst[CurInstance]
    IN  /\ recover_latest(inst, blobs, namedirs, op.name) = [err |-> "", out |-> S]
        /\ new.files["size"] = FormatLine(str(Len(S)))
        /\ ParseInt(new.files["size"]) = <<TRUE, Len(S)>>
        /\ new.files["hash"] = FormatLine(HexDigest(S))
        /\ S = <<>> => DOMAIN new.links = {}

\* a stream of two different parts, the greater first, ingested under a name
\* that has an older instance
C1_Witness ==
  /\ AddReturned
  /\ add_l.read = <<1, 0>>
  /\ add_l.partnr = 2
  /\ Cardinality(InstancesOf(inst, op.name)) >= 2

\* C2: when remove_obsolete returns in a repository that only calls which
\* were not killed have worked on, every part symlink of every instance of
\* every name resolves to an existing blob.
C2_GCSafety ==
  (RemoveReturned /\ nkills = 0) => AllResolve(inst, blobs)

\* remove_obsolete removed an instance and a blob, and a blob of the removed
\* instance is still referred to by an instance of another name
C2_Witness ==
  /\ RemoveReturned
  /\ nkills = 0
  /\ DOMAIN blobs # DOMAIN pre.blobs
  /\ \E k \in DOMAIN pre.inst \ DOMAIN inst :
       \E k2 \in DOMAIN inst :
          /\ k2[1] # k[1]
          /\ Referenced([x \in {k} |-> pre.inst[k]]) \cap Referenced([x \in {k2} |-> inst[k2]]) # {}

\* the completed instances of the name that were newer than the instance when
\* remove_obsolete was entered
NewerCompleted(key) ==
  {t \in Range(timestamps(pre.inst, pre.namedirs, key[1])) :
     /\ LexLess(TimestampOfDir(key[2]), t)
     /\ Completed(pre.inst, pre.blobs, key[1], t)}

\* the instance is one of the maxbackups newest completed ones or is newer
\* than the maxbackups-th newest completed one
MustKeep(key) == Cardinality(NewerCompleted(key)) < op.maxbackups

\* C3: while remove_obsolete(name, k) runs and when it has ended, no instance
\* of another name and none of the instances of name that are among the k
\* newest completed ones or newer than the k-th newest completed one is
\* removed or changed; when it has returned, every instance of name older than
\* the k-th newest completed one is removed.
C3_Retention ==
  InRemove =>
    /\ DOMAIN inst \subseteq DOMAIN pre.inst
    /\ \A key \in DOMAIN pre.inst :
         (key[1] # op.name \/ MustKeep(key)) =>
            key \in DOMAIN inst /\ inst[key] = pre.inst[key]
    /\ RemoveReturned =>
         \A key \in DOMAIN pre.inst :
            (key[1] = op.name /\ ~MustKeep(key)) => key \notin DOMAIN inst

\* remove_obsolete has returned and removed a completed instance and one that
\* was not completed
C3_Witness ==
  /\ RemoveReturned
  /\ \E k1, k2 \in DOMAIN pre.inst \ DOMAIN inst :
       /\ Completed(pre.inst, pre.blobs, k1[1], TimestampOfDir(k1[2]))
       /\ ~Completed(pre.inst, pre.blobs, k2[1], TimestampOfDir(k2[2]))
  /\ InstancesOf(inst, op.name) # {}

\* the blob holds the bytes its name is the digest of
BlobIntact(B, b) == HexDigest(B[b]) = hash_of_filename(b)

\* the instance has hash and size and its parts give a stream of that size
\* and hash
Reproduces(I, B, k) ==
  LET r == recover_nosizecheck(I, B, k[1], TimestampOfDir(k[2]))
  IN  r.err = "" /\ ParseInt(I[k].files["size"]) = <<TRUE, Len(r.out)>>

\* invariants 1 and 2 of the data model
DataModel(I, B) ==
  /\ AllResolve(I, B)
  /\ \A b \in Referenced(I) : BlobIntact(B, b)
  /\ \A k \in DOMAIN I : {"hash", "size"} \subseteq DOMAIN I[k].files => Reproduces(I, B, k)

\* C4 (the claim as stated; the code violates it): when the first
\* remove_obsolete(name, k) after an ingest of name was killed has ended, it
\* has returned, every part symlink resolves to a blob that holds the bytes
\* of its digest, and every instance with hash and size reproduces a stream of
\* the declared size and hash.
C4_CrashSafety ==
  (RemoveFinished /\ \E p \in pending : p[1][1] = op.name /\ p[2] = "killed") =>
     pc # "raised" /\ DataModel(inst, blobs)

\* C5 (the claim as stated; the code violates it): when the first
\* remove_obsolete(name, k) after an ingest of name failed or was killed has
\* ended, the instance that ingest left behind is removed.
C5_Reclaimed ==
  RemoveFinished => \A p \in pending : p[1][1] = op.name => p[1] \notin DOMAIN inst

\* C6 (the claim as stated; the code violates it): a blob path, a hash path
\* and a size path never hold anything but complete final contents: the bytes
\* of the blob's digest, a digest and a newline, a number and a newline.
C6_FinalContents ==
  /\ \A b \in DOMAIN blobs : BlobIntact(blobs, b)
  /\ \A k \in DOMAIN inst :
       /\ "hash" \in DOMAIN inst[k].files =>
            \E S \in Streams : inst[k].files["hash"] = FormatLine(HexDigest(S))
       /\ "size" \in DOMAIN inst[k].files =>
            \E n \in 0..MaxLen : inst[k].files["size"] = FormatLine(str(n))

\* C7 (the claim as stated; the code violates it): a call of add(name,
\* maxbackups, S) returns, and the repository then holds a completed instance
\* of name made by that call.
C7_AddIngests ==
  (op.kind = "add" /\ pc \in {"returned", "raised"}) =>
     /\ pc = "returned"
     /\ instancedir(op.name, Strftime(clock)) \in DOMAIN inst
     /\ Completed(inst, blobs, op.name, Strftime(clock))

\* C8: after n calls add_lvm(_, name, k) of one name and one k that all
\* returned, and nothing else, on an empty repository, the instances of name
\* are the min(n, k) that were ingested last.
C8_RetentionBound ==
  (pc = "idle" /\ run.pure /\ run.tss # <<>>) =>
     LET n == Len(run.tss)
         m == Min(n, run.k)
         left == {TimestampOfDir(k[2]) : k \in InstancesOf(inst, run.name)}
     IN  /\ left = {run.tss[i] : i \in (n - m + 1)..n}
         /\ Cardinality(left) = m
         /\ \A i, j \in 1..n : i < j => LexLess(run.tss[i], run.tss[j])

\* three backups with maxbackups = 2, the last one of them with data
C8_Witness ==
  /\ pc = "idle"
  /\ run.pure
  /\ Len(run.tss) = 3
  /\ run.k = 2
  /\ blobs # << >>

\* C9 (the claim as stated; the code violates it): when remove_obsolete
\* returns, the blobs that exist are the blobs some part symlink refers to.
C9_BlobSet ==
  RemoveReturned => DOMAIN blobs = Referenced(inst)

\* the parts of a stream
RECURSIVE PartsOf(_, _)
PartsOf(S, ps) == IF S = <<>> THEN <<>> ELSE <<Take(S, ps)>> \o PartsOf(Drop(S, ps), ps)

\* C10: when all that happened to the empty repository is two ingests of one
\* stream S under two names, there are as many blobs as S has different
\* parts (as many as parts when all differ, one when all are the same), and
\* each blob is referred to by both instances.
C10_Dedup ==
  (nops = 2 /\ nkills = 0) =>
    \A k1, k2 \in DOMAIN src :
       (k1[1] # k2[1] /\ src[k1] = src[k2]) =>
          LET parts == PartsOf(src[k1], partsize)
              different == Cardinality(Range(parts))
          IN  /\ Cardinality(DOMAIN blobs) = different
              /\ different = Len(parts) =>
                   Cardinality(DOMAIN blobs) = (Len(src[k1]) + partsize - 1) \div partsize
              /\ (different = 1) => Cardinality(DOMAIN blobs) = 1
              /\ \A b \in DOMAIN blobs :
                   /\ \E l \in DOMAIN inst[k1].links : inst[k1].links[l] = b
                   /\ \E l \in DOMAIN inst[k2].links : inst[k2].links[l] = b

\* a stream of two equal parts under two names
C10_Witness ==
  /\ nops = 2
  /\ nkills = 0
  /\ pc = "idle"
  /\ partsize = 1
  /\ \E k1, k2 \in DOMAIN src : k1[1] # k2[1] /\ src[k1] = <<1, 1>> /\ src[k2] = <<1, 1>>

\* C11: a step of an ingest changes or removes an existing blob only in
\* write_file on the blob of the part at hand, and only when the size of the
\* blob differs from the length of the part; so a blob that holds the bytes
\* of its digest, as every blob written by a completed ingest does, is left
\* as it is by every step of every later ingest.
C11_WriteOrSkip ==
  [][(pc \in AddLabels =>
       \A b \in DOMAIN blobs :
          /\ (b \notin DOMAIN blobs' \/ blobs'[b] # blobs[b]) =>
               /\ pc \in {"wf_open", "wf_write"}
               /\ wf.file = "blob"
               /\ b = CurBlob
               /\ Len(blobs[b]) # Len(add_l.data)
          /\ BlobIntact(blobs, b) => b \in DOMAIN blobs' /\ blobs'[b] = blobs[b]
    )]_vars

\* the ingest has gone past its first part without calling write_file, and
\* the part is the first part of a stream ingested under another name
C11_Witness ==
  /\ InAdd
  /\ pc = "add_read"
  /\ add_l.partnr = 1
  /\ wf = NoWf
  /\ \E k \in DOMAIN src : k[1] # op.name /\ Take(src[k], partsize) = add_l.data

\* C12 (the claim as stated; the code violates it): at every point of a
\* running ingest a reader of the instance being written gets an answer from
\* sizes, and the answer is either that hash or size is missing or that the
\* instance is completed, in which case recover yields the whole stream; hash
\* and size exist only once the input has ended and every part symlink has
\* its blob.
C12_ReaderView ==
  (pc \in AddLabels /\ CurInstance \in DOMAIN inst) =>
     LET r == sizes(inst, blobs, op.name, add_l.timestamp)
         files == DOMAIN inst[CurInstance].files
     IN  /\ r.err = ""
         /\ ~r.known => ~({"hash", "size"} \subseteq files)
         /\ r.known =>
              /\ SizesEqual(r)
              /\ recover(inst, blobs, op.name, add_l.timestamp) = [err |-> "", out |-> add_l.read]
         /\ files # {} =>
              /\ add_l.eof
              /\ \A l \in DOMAIN inst[CurInstance].links :
                    /\ inst[CurInstance].links[l] \in DOMAIN blobs
                    /\ BlobIntact(blobs, inst[CurInstance].links[l])

\* recover(name, timestamp) has run on an existing instance
RecoverDone ==
  /\ op.kind = "recover"
  /\ pc \in {"returned", "raised"}
  /\ instancedir(op.name, op.timestamp) \in DOMAIN inst

\* C13 (the claim as stated; the code violates it): recover of an instance
\* that is not completed ends with the incomplete-backup error, the
\* RuntimeError recover itself raises after sizes has answered, and has
\* written nothing.
C13_RecoverIncomplete ==
  (RecoverDone /\ ~Completed(inst, blobs, op.name, op.timestamp)) =>
     /\ pc = "raised"
     /\ out = [err |-> "RuntimeError", out |-> <<>>]
     /\ sizes(inst, blobs, op.name, op.timestamp).err = ""

\* the newest of the completed instances of name, as a timestamp
NewestCompleted(I, B, ND, name) ==
  LET tss == timestamps(I, ND, name)
      done == {i \in 1..Len(tss) : Completed(I, B, name, tss[i])}
  IN  tss[CHOOSE i \in done : \A j \in done : i <= j]

\* C14 (the claim as stated; the code violates it): whenever recover_latest
\* may be called, for every name it does what recover_nosizecheck does on the
\* newest completed instance of the name, whatever newer instances there are
\* that are not completed; when the name has no completed instance it fails
\* and writes nothing.
C14_RecoverLatest ==
  pc = "idle" =>
    \A name \in Names :
       LET r == recover_latest(inst, blobs, namedirs, name)
       IN  IF \E k \in InstancesOf(inst, name) : Completed(inst, blobs, name, TimestampOfDir(k[2]))
             THEN r = recover_nosizecheck(inst, blobs, name,
                                         NewestCompleted(inst, blobs, namedirs, name))
             ELSE r.err # "" /\ r.out = <<>>

\* C15: under SpecCorrupt, when recover has run on an instance that sizes
\* classifies as completed, it has written the bytes of all parts, as many as
\* the size file declares; it has returned exactly when their digest is the
\* one in the hash file and has raised the integrity RuntimeError otherwise;
\* and when a blob of an instance that was ingested from S has been altered,
\* what was written is not S and recover has raised.  Altering a blob does
\* not change the classification: an instance whose ingest returned is
\* classified as completed as long as no call was killed.
C15_Integrity ==
  /\ (RecoverDone /\ nkills = 0 /\ instancedir(op.name, op.timestamp) \in DOMAIN src) =>
        Completed(inst, blobs, op.name, op.timestamp)
  /\ (RecoverDone /\ Completed(inst, blobs, op.name, op.timestamp)) =>
     LET k == instancedir(op.name, op.timestamp)
         stored == rstripNL(inst[k].files["hash"])
     IN  /\ out.out = recover_nosizecheck_nohash(inst, blobs, op.name, op.timestamp).out
         /\ ParseInt(inst[k].files["size"]) = <<TRUE, Len(out.out)>>
         /\ out.err \in {"", "RuntimeError"}
         /\ (out.err = "") = (HexDigest(out.out) = stored)
         /\ (pc = "returned") = (out.err = "")
         /\ k \in DOMAIN src =>
              /\ stored = HexDigest(src[k])
              /\ (\E l \in DOMAIN inst[k].links : ~BlobIntact(blobs, inst[k].links[l])) =>
                    /\ out.err = "RuntimeError"
                    /\ out.out # src[k]
                    /\ Len(out.out) = Len(src[k])

\* recover has run on a completed instance of two parts one of whose blobs
\* was altered
C15_Witness ==
  /\ RecoverDone
  /\ Completed(inst, blobs, op.name, op.timestamp)
  /\ Cardinality(DOMAIN inst[instancedir(op.name, op.timestamp)].links) = 2
  /\ \E l \in DOMAIN inst[instancedir(op.name, op.timestamp)].links :
        ~BlobIntact(blobs, inst[instancedir(op.name, op.timestamp)].links[l])
  /\ pc = "raised"
  /\ Len(out.out) = 2

\* a step that enters add_nomaxbackups, as a call of its own or from add_lvm
EntersAdd ==
  \/ pc = "idle" /\ op'.kind = "add_nomaxbackups"
  \/ pc = "ro_done" /\ op.kind = "add_lvm" /\ phase' = 2

\* C16: an ingest that is entered while the instance directory of its name
\* and second exists raises AlreadyExists having read nothing and changed
\* neither an instance nor a blob nor a directory, and nothing changes until
\* the call has ended; an ingest that is entered otherwise works on an
\* instance directory that did not exist, so no instance holds what two
\* ingests wrote.
C16_NoClobber ==
  [][(/\ EntersAdd =>
          IF instancedir(op'.name, Strftime(clock)) \in DOMAIN inst
            THEN /\ pc' = "raised"
                 /\ status' = "AlreadyExists"
                 /\ add_l'.read = <<>>
                 /\ UNCHANGED fsvars
            ELSE /\ pc' = "add_read"
                 /\ instancedir(op'.name, add_l'.timestamp) \notin DOMAIN inst'
      /\ (pc = "raised" /\ status = "AlreadyExists") => UNCHANGED fsvars
      /\ pc \in AddLabels =>
           \A k \in DOMAIN inst : k # CurInstance => k \in DOMAIN inst' /\ inst'[k] = inst[k]
    )]_vars

\* an ingest was refused on an instance that holds a part, its hash and size
C16_Witness ==
  /\ pc = "raised"
  /\ status = "AlreadyExists"
  /\ InAdd
  /\ CurInstance \in DOMAIN src
  /\ inst[CurInstance].links # << >>
  /\ {"hash", "size"} \subseteq DOMAIN inst[CurInstance].files

\* (partdir name, partfile name) order: the order partfiles walks in
PathLess(p, q) == LexLess(p[1], q[1]) \/ (p[1] = q[1] /\ LexLess(p[2], q[2]))

\* the part numbers of a set, smallest first
RECURSIVE Ascending(_)
Ascending(S) ==
  IF S = {} THEN <<>>
  ELSE LET m == CHOOSE x \in S : \A y \in S : x <= y IN <<m>> \o Ascending(S \ {m})

\* C17: under SpecParts, for the value of maxparts and all part numbers
\* i < j < maxparts of PartIdx, the part path of i comes before that of j in
\* (partdir, partfile) order, a part path has a directory name of 3
\* characters and a file name that is not empty, and partfiles lists the part
\* symlinks that were made in the order of their part numbers.
C17_PartOrder ==
  /\ \A i, j \in PartIdx :
        (i < j /\ j < maxparts) =>
           /\ PathLess(PartPath(i, maxparts), PartPath(j, maxparts))
           /\ PartPath(i, maxparts) # PartPath(j, maxparts)
  /\ \A i \in PartIdx :
        i < maxparts =>
           /\ Len(PartPath(i, maxparts)[1]) = 3
           /\ Len(PartPath(i, maxparts)[2]) >= 1
  /\ LET made == {i \in PartIdx : i < maxparts /\ PartPath(i, maxparts) \in DOMAIN inst[CurInstance].links}
         order == Ascending(made)
     IN  partfiles(inst, op.name, add_l.timestamp) =
            [n \in 1..Len(order) |-> PartPath(order[n], maxparts)]

\* symlinks were made for the parts 9999 and 10000 and one before them
C17_Witness ==
  /\ maxparts = 10001
  /\ Len(partfiles(inst, op.name, add_l.timestamp)) = 3
  /\ PartPath(9999, maxparts) \in DOMAIN inst[CurInstance].links
  /\ PartPath(10000, maxparts) \in DOMAIN inst[CurInstance].links

\* the exception sizes raised for one of the instances the running
\* remove_obsolete examined when it was entered, "" when it raised for none
SelectionError ==
  SelectFrom(pre.inst, pre.blobs, op.name, op.maxbackups,
             timestamps(pre.inst, pre.namedirs, op.name), 1, 0).err

\* C18: when sizes raises for an instance remove_obsolete examines while it
\* builds its list, remove_obsolete ends with that exception and the
\* directories of the names, the instances with their part symlinks, hash
\* and size, and the blobs are what they were when it was entered.
C18_SelectionFailure ==
  (InRemove /\ SelectionError # "") =>
     /\ pc = "raised"
     /\ status = SelectionError
     /\ namedirs = pre.namedirs
     /\ inst = pre.inst
     /\ blobs = pre.blobs

\* remove_obsolete has raised what sizes raised on an instance with two part
\* symlinks of which one has no blob, in a repository that holds a blob
C18_Witness ==
  /\ InRemove
  /\ SelectionError = "OSError"
  /\ pc = "raised"
  /\ blobs # << >>
  /\ \E k \in InstancesOf(inst, op.name) : Cardinality(DOMAIN inst[k].links) = 2

\* remove_obsolete is at a step of the removal of the instance RoInstance
Removing == pc \in {"ro_partfile", "ro_partdir", "ro_required", "ro_rmdir"}

NewestAtEntry ==
  CHOOSE k \in InstancesOf(pre.inst, op.name) :
     \A k2 \in InstancesOf(pre.inst, op.name) : k2 = k \/ LexLess(k2[2], k[2])

\* C20: when remove_obsolete(name, k) is entered, directly or from add_lvm,
\* and the instance of name with the greatest timestamp is one whose ingest
\* of a stream S returned and which is completed, then at every step up to
\* its end, however it ends, that instance and every blob it refers to are
\* unchanged and recover_latest(name) yields S.
C20_NewBackupSurvives ==
  (/\ InRemove
   /\ InstancesOf(pre.inst, op.name) # {}
   /\ NewestAtEntry \in DOMAIN src
   /\ Completed(pre.inst, pre.blobs, op.name, TimestampOfDir(NewestAtEntry[2]))) =>
     LET new == NewestAtEntry
     IN  /\ new \in DOMAIN inst
         /\ inst[new] = pre.inst[new]
         /\ \A l \in DOMAIN inst[new].links :
               /\ inst[new].links[l] \in DOMAIN blobs
               /\ blobs[inst[new].links[l]] = pre.blobs[inst[new].links[l]]
         /\ recover_latest(inst, blobs, namedirs, op.name) = [err |-> "", out |-> src[new]]

\* the remove_obsolete that add_lvm runs after its ingest has returned, an
\* older instance is gone, and the new instance has a part
C20_Witness ==
  /\ op.kind = "add_lvm"
  /\ phase = 3
  /\ pc = "returned"
  /\ DOMAIN inst # DOMAIN pre.inst
  /\ instancedir(op.name, Strftime(clock)) \in DOMAIN src
  /\ inst[instancedir(op.name, Strftime(clock))].links # << >>

====
